---- MODULE Spec2Model ----
(***************************************************************************)
(* Model of crates/script/src/build.rs: the resolve / compile /            *)
(* disambiguate / link pipeline of the script command.                     *)
(*                                                                         *)
(* Strings (user input, contract names, paths) are sequences of one-token  *)
(* strings, so that splitting on ':' and '.' and joining paths are         *)
(* computed, not assumed.  Option<T> is a sequence of length 0 or 1.       *)
(***************************************************************************)
EXTENDS Naturals, Integers, Sequences, FiniteSets, TLC

VARIABLES
    pc,             \* position in PreprocessedState::compile / CompiledState::link
    args,           \* ScriptArgs: path, target_contract
    target_name,    \* local of compile(): Option<String>
    target_path,    \* local of compile(): Option<PathBuf>
    output,         \* local of compile(): Option<artifact set>
    build_data,     \* CompiledState.build_data: Option<BuildData>
    linked,         \* Option<LinkedBuildData>
    call,           \* arguments of the last link call
    err,            \* error returned to the caller, "" when none
    stages,         \* stages that have run, in order
    compiled,       \* the BuildData as compile() returned it
    attempts        \* link calls made on the build data

vars == <<pc, args, target_name, target_path, output, build_data, linked,
          call, err, stages, compiled, attempts>>

(***************************************************************************)
(* Bounds                                                                  *)
(***************************************************************************)
MaxStrLen == 3      \* longest user string
MaxNonce == 1       \* largest starting nonce of the sender
MaxLinks == 2       \* link calls made on one build data

(***************************************************************************)
(* Option and string helpers                                               *)
(***************************************************************************)
None == <<>>
Some(x) == <<x>>
IsSome(o) == Len(o) = 1
Unwrap(o) == o[1]

Range(s) == {s[i] : i \in 1..Len(s)}

Alphabet == {"p", ":", "A"}

StringsUpTo(n) == UNION {[1..k -> Alphabet] : k \in 1..n}

\* str::rsplit(':'): the pieces of s between colons, last piece first.
RECURSIVE RSplitColon(_)
RSplitColon(s) ==
    IF \A i \in 1..Len(s) : s[i] # ":"
    THEN <<s>>
    ELSE LET k == CHOOSE i \in 1..Len(s) :
                      s[i] = ":" /\ \A j \in (i + 1)..Len(s) : s[j] # ":"
         IN <<SubSeq(s, k + 1, Len(s))>> \o RSplitColon(SubSeq(s, 1, k - 1))

\* str::split('.').next(): the part of s before its first dot.
\* Variant: the name compared whole, version suffix included.
WholeName(s) == s
FirstDotSegment(s) ==
    IF \A i \in 1..Len(s) : s[i] # "."
    THEN s
    ELSE LET k == CHOOSE i \in 1..Len(s) :
                      s[i] = "." /\ \A j \in 1..(i - 1) : s[j] # "."
         IN SubSeq(s, 1, k - 1)

(***************************************************************************)
(* File system and project                                                 *)
(***************************************************************************)
Root == <<"/">>
Files == {<<"p">>}                         \* files that exist under the root

\* dunce::canonicalize: absolute path of an existing file, else an error.
Canonicalize(s) ==
    IF s \in Files THEN [ok |-> TRUE, path |-> Root \o s]
                   ELSE [ok |-> FALSE, path |-> <<>>]

\* Path::join: an absolute right-hand side replaces the left-hand side.
Join(root, p) == IF Len(p) > 0 /\ p[1] = "/" THEN p ELSE root \o p

\* ContractInfo::from_str: "<path>:<name>" or "<name>", split from the right.
ContractInfoFromStr(s) ==
    LET parts == RSplitColon(s)
    IN [name |-> parts[1],
        path |-> IF Len(parts) > 1 THEN Some(parts[2]) ELSE None]

(***************************************************************************)
(* Names, artifact ids, artifacts                                          *)
(***************************************************************************)
NameA == <<"A">>
NameAv == <<"A", ".", "0", ".", "8", ".", "19">>
NameB == <<"B">>
NameL == <<"L">>
NameM == <<"M">>

TargetSource == <<"/", "p">>
OtherSource == <<"/", "o">>
LibSource == <<"/", "l">>

Id(src, name) == [source |-> src, name |-> name]

IdA == Id(TargetSource, NameA)
IdAv == Id(TargetSource, NameAv)
IdB == Id(TargetSource, NameB)
IdO == Id(OtherSource, NameA)
IdL == Id(LibSource, NameL)
IdM == Id(LibSource, NameM)

\* Iteration order of the artifact map (BTreeMap order of ArtifactId).
IdOrder == <<IdL, IdM, IdO, IdA, IdAv, IdB>>

\* A bytecode object: code is the byte content (<<>> when empty), refs the
\* unresolved library placeholders (BytecodeObject::Unlinked iff refs # {}),
\* links the addresses already substituted.
Obj(code, refs) == [code |-> code, refs |-> refs, links |-> <<>>]

Contract(abi, creation, runtime) ==
    [abi |-> abi, bytecode |-> creation, deployed_bytecode |-> runtime]

\* Shapes of compiled contracts.
Interface(n) == Contract("some", Some(Obj(<<>>, {})), Some(Obj(<<>>, {})))
NoAbi(n) == Contract("none", Some(Obj(<<n, "init">>, {})), Some(Obj(<<n, "run">>, {})))
EmptyAbi(n) == Contract("empty", Some(Obj(<<n, "init">>, {})), Some(Obj(<<n, "run">>, {})))
NoCode(n) == Contract("some", None, None)
Plain(n) == Contract("some", Some(Obj(<<n, "init">>, {})), Some(Obj(<<n, "run">>, {})))
Needs(n, libs) ==
    Contract("some", Some(Obj(<<n, "init">>, libs)), Some(Obj(<<n, "run">>, libs)))
CtorNeeds(n, libs) ==
    Contract("some", Some(Obj(<<n, "init">>, libs)), Some(Obj(<<n, "run">>, {})))
NoRuntime(n) == Contract("some", Some(Obj(<<n, "init">>, {})), Some(Obj(<<>>, {})))

ShapesA(n) == {Interface(n), NoCode(n), Plain(n), Needs(n, {IdL}),
               CtorNeeds(n, {IdM}), NoRuntime(n)}
ShapesV(n) == {NoAbi(n), Plain(n)}
ShapesB(n) == {Interface(n), EmptyAbi(n), Plain(n)}

\* The libraries of the project: L uses M.
LibArtifacts == (IdL :> Needs("L", {IdM})) @@ (IdM :> Plain("M"))

OptShape(id, shapes) == {<<>>} \cup {id :> c : c \in shapes}

\* The artifact sets the compiler may return.
ArtifactSets ==
    {a @@ av @@ b @@ o @@ LibArtifacts :
        a \in OptShape(IdA, ShapesA("A")),
        av \in OptShape(IdAv, ShapesV("Av")),
        b \in OptShape(IdB, ShapesB("B")),
        o \in OptShape(IdO, {Plain("O")})}

(***************************************************************************)
(* Target Resolver (compile(), lines 135-150)                              *)
(***************************************************************************)
Failed(e) == [ok |-> FALSE, error |-> e]

\* Variant: the string is always parsed as a descriptor.
ResolveIgnoringCanonical(a) ==
    LET contract == ContractInfoFromStr(a.path)
        c == IF IsSome(contract.path)
             THEN Canonicalize(Unwrap(contract.path))
             ELSE Canonicalize(a.path)
    IN IF c.ok
       THEN [ok |-> TRUE, target_name |-> Some(contract.name),
             target_path |-> Some(c.path)]
       ELSE [ok |-> TRUE, target_name |-> Some(contract.name),
             target_path |-> None]

ResolveTarget(a) ==
    LET direct == Canonicalize(a.path)
    IN IF direct.ok
       THEN [ok |-> TRUE, target_name |-> a.target_contract,
             target_path |-> Some(direct.path)]
       ELSE LET contract == ContractInfoFromStr(a.path)
            IN IF IsSome(contract.path)
               THEN LET c == Canonicalize(Unwrap(contract.path))
                    IN IF c.ok
                       THEN [ok |-> TRUE, target_name |-> Some(contract.name),
                             target_path |-> Some(c.path)]
                       ELSE Failed("ResolutionError")
               ELSE [ok |-> TRUE, target_name |-> Some(contract.name),
                     target_path |-> None]

(***************************************************************************)
(* Path lookup in the compilation cache (compile(), lines 168-180)         *)
(***************************************************************************)
\* get_cached_entry_by_name: the one source file holding a contract of that
\* name; an error when none or several do.
GetCachedEntryByName(out, name) ==
    LET hits == {id.source : id \in {i \in DOMAIN out :
                                        FirstDotSegment(i.name) = name}}
    IN IF Cardinality(hits) = 1
       THEN [ok |-> TRUE, path |-> CHOOSE p \in hits : TRUE]
       ELSE [ok |-> FALSE, path |-> <<>>]

FindTargetPath(out, tpath, tname) ==
    IF IsSome(tpath)
    THEN [ok |-> TRUE, path |-> Join(Root, Unwrap(tpath))]
    ELSE LET e == GetCachedEntryByName(out, Unwrap(tname))
         IN IF e.ok THEN [ok |-> TRUE, path |-> Join(Root, e.path)]
                    ELSE Failed("ResolutionError")

(***************************************************************************)
(* Artifact Disambiguator (compile(), lines 182-216)                       *)
(***************************************************************************)
AbiIsEmpty(c) == c.abi \in {"none", "empty"}

\* bytecode.map_or(true, |b| match b.object { Bytecode(b) => b.is_empty(),
\*                                            Unlinked(_) => false })
BytecodeIsEmpty(c) ==
    \/ ~IsSome(c.bytecode)
    \/ /\ Unwrap(c.bytecode).refs = {}
       /\ Unwrap(c.bytecode).code = <<>>

\* Variant: the ABI and bytecode filter applied under a name constraint too.
SkippedAlwaysFiltering(id, c, tname) ==
    \/ IsSome(tname) /\ id.name # Unwrap(tname)
    \/ AbiIsEmpty(c) \/ BytecodeIsEmpty(c)

\* The `continue` conditions of the loop body.
Skipped(id, c, tname) ==
    IF IsSome(tname)
    THEN id.name # Unwrap(tname)
    ELSE AbiIsEmpty(c) \/ BytecodeIsEmpty(c)

\* Ids of the artifacts at the target path, in iteration order.
AtTargetPath(out, tpath) ==
    SelectSeq(IdOrder, LAMBDA id : id \in DOMAIN out /\ id.source = tpath)

\* The loop: acc is [target_id, bail]; ids the artifacts still to visit.
RECURSIVE FindLoop(_, _, _, _)
FindLoop(out, tname, ids, acc) ==
    IF ids = <<>> \/ acc.bail
    THEN acc
    ELSE LET id == Head(ids)
         IN IF Skipped(id, out[id], tname)
            THEN FindLoop(out, tname, Tail(ids), acc)
            ELSE IF /\ IsSome(acc.target_id)
                    /\ FirstDotSegment(Unwrap(acc.target_id).name)
                           # FirstDotSegment(id.name)
                 THEN [acc EXCEPT !.bail = TRUE]
                 ELSE FindLoop(out, tname, Tail(ids),
                               [acc EXCEPT !.target_id = Some(id)])

FindTargetArtifact(out, tpath, tname) ==
    LET r == FindLoop(out, tname, AtTargetPath(out, tpath),
                      [target_id |-> None, bail |-> FALSE])
    IN IF r.bail THEN Failed("AmbiguousTarget")
       ELSE IF ~IsSome(r.target_id) THEN Failed("TargetNotFound")
       ELSE [ok |-> TRUE, target |-> Unwrap(r.target_id)]

\* ContractSources::from_project_output: the sources of the output.
ContractSources(out) == {id.source : id \in DOMAIN out}


(***************************************************************************)
(* Linker (foundry_linking::Linker), as the Linker Stage is specified      *)
(***************************************************************************)
Sender == "0xAAA"
AddressZero == "0x000"

\* Address of the contract `sender` creates with `nonce`.
Create(sender, nonce) == <<"create", sender, nonce>>
GivenAddress(lib) == <<"given", lib.name>>

\* Library sets a caller or the configuration may supply.
LibrarySets ==
    {[l \in S |-> GivenAddress(l)] : S \in SUBSET {IdL, IdM}}

\* Bytecode::link for every library of `libraries`.
LinkObj(obj, libraries) ==
    LET hit == obj.refs \cap DOMAIN libraries
    IN [code |-> obj.code,
        refs |-> obj.refs \ hit,
        links |-> [l \in (DOMAIN obj.links) \cup hit |->
                     IF l \in hit THEN libraries[l] ELSE obj.links[l]]]

LinkOpt(o, libraries) ==
    IF IsSome(o) THEN Some(LinkObj(Unwrap(o), libraries)) ELSE None

\* Linker::link: the artifact with both bytecodes linked.
LinkerLink(contracts, id, libraries) ==
    [abi |-> contracts[id].abi,
     bytecode |-> LinkOpt(contracts[id].bytecode, libraries),
     deployed_bytecode |-> LinkOpt(contracts[id].deployed_bytecode, libraries)]

OptRefs(o) == IF IsSome(o) THEN Unwrap(o).refs ELSE {}
LinkReferences(c) == OptRefs(c.bytecode) \cup OptRefs(c.deployed_bytecode)

\* Linker::collect_dependencies: the libraries `id` needs, transitively.
RECURSIVE CollectDependencies(_, _, _)
CollectDependencies(contracts, todo, deps) ==
    IF todo = {}
    THEN deps
    ELSE LET id == CHOOSE i \in todo : TRUE
             new == LinkReferences(contracts[id]) \ deps
         IN CollectDependencies(contracts, (todo \ {id}) \cup new,
                                deps \cup new)

NeededLibraries(contracts, target) ==
    CollectDependencies(contracts, {target}, {})

Position(id) == CHOOSE i \in 1..Len(IdOrder) : IdOrder[i] = id

\* The needed libraries in dependency order: a library comes after the
\* libraries it uses; ties are broken by the order of the artifact map.
RECURSIVE DependencyOrder(_, _, _)
DependencyOrder(contracts, remaining, placed) ==
    IF remaining = {}
    THEN placed
    ELSE LET ready == {l \in remaining :
                          LinkReferences(contracts[l]) \cap remaining \subseteq {l}}
             next == CHOOSE l \in ready :
                          \A m \in ready : Position(l) <= Position(m)
         IN DependencyOrder(contracts, remaining \ {next}, Append(placed, next))

\* The loop of link_with_nonce_or_address: a needed library missing from
\* `libraries` gets the address sender.create(nonce), and nonce advances.
RECURSIVE AssignAddresses(_, _, _, _, _)
AssignAddresses(ids, libraries, to_deploy, sender, nonce) ==
    IF ids = <<>>
    THEN [libraries |-> libraries, to_deploy |-> to_deploy, nonce |-> nonce]
    ELSE IF Head(ids) \in DOMAIN libraries
         THEN AssignAddresses(Tail(ids), libraries, to_deploy, sender, nonce)
         ELSE AssignAddresses(Tail(ids),
                              (Head(ids) :> Create(sender, nonce)) @@ libraries,
                              Append(to_deploy, Head(ids)), sender, nonce + 1)

LinkWithNonceOrAddress(contracts, libraries, sender, nonce, target) ==
    LET order == DependencyOrder(contracts,
                                 NeededLibraries(contracts, target), <<>>)
        r == AssignAddresses(order, libraries, <<>>, sender, nonce)
    IN [libraries |-> r.libraries,
        libs_to_deploy |->
            [i \in 1..Len(r.to_deploy) |->
                Unwrap(LinkerLink(contracts, r.to_deploy[i], r.libraries).bytecode)]]

\* Linker::get_linked_artifacts: every artifact linked with `libraries`.
GetLinkedArtifacts(contracts, libraries) ==
    [id \in DOMAIN contracts |-> LinkerLink(contracts, id, libraries)]

(***************************************************************************)
(* BuildData and LinkedBuildData                                           *)
(***************************************************************************)
\* ContractBytecodeSome::try_from succeeds when abi and bytecode are present.
TryFromOk(c) == c.abi # "none" /\ IsSome(c.bytecode)

\* Variant: resolved bytes, empty or not.
IsResolvedBytecode(obj) == obj.refs = {}

\* BytecodeObject::is_non_empty_bytecode: resolved bytes, and not empty.
IsNonEmptyBytecode(obj) == obj.refs = {} /\ obj.code # <<>>

\* BytecodeObject::as_bytes / CompactBytecode::bytes.
Bytes(o) == IF IsSome(o) /\ Unwrap(o).refs = {} THEN Some(Unwrap(o)) ELSE None

Restrict(f, S) == [x \in S |-> f[x]]

\* ContractBytecode::unwrap
ToSome(c) == [abi |-> c.abi, bytecode |-> Unwrap(c.bytecode),
              deployed_bytecode |-> Unwrap(c.deployed_bytecode)]

Exposed(all, kept) == [id \in kept |-> ToSome(all[id])]

\* Variant: no is_non_empty_bytecode filter.
LinkedBuildDataNewNoFilter(link_output, bd) ==
    LET all == GetLinkedArtifacts(bd.contracts, link_output.libraries)
    IN [ok |-> TRUE,
        value |-> [build_data |-> bd,
                   highlevel_known_contracts |->
                       Exposed(all, {id \in DOMAIN all : TryFromOk(all[id])}),
                   libraries |-> link_output.libraries,
                   predeploy_libraries |-> link_output.libs_to_deploy]]

\* Variant: the dropped artifacts are removed from the build data as well.
LinkedBuildDataNewPruning(link_output, bd) ==
    LET all == GetLinkedArtifacts(bd.contracts, link_output.libraries)
        kept == {id \in DOMAIN all :
                    /\ TryFromOk(all[id])
                    /\ IsNonEmptyBytecode(Unwrap(all[id].bytecode))}
    IN [ok |-> TRUE,
        value |-> [build_data |->
                       [bd EXCEPT !.contracts = Restrict(@, kept \cup {bd.target})],
                   highlevel_known_contracts |-> Exposed(all, kept),
                   libraries |-> link_output.libraries,
                   predeploy_libraries |-> link_output.libs_to_deploy]]

\* Variant: the filter looks at the deployed bytecode.
LinkedBuildDataNewByDeployedCode(link_output, bd) ==
    LET all == GetLinkedArtifacts(bd.contracts, link_output.libraries)
        kept == {id \in DOMAIN all :
                    /\ TryFromOk(all[id])
                    /\ IsNonEmptyBytecode(Unwrap(all[id].deployed_bytecode))}
    IN [ok |-> TRUE,
        value |-> [build_data |-> bd,
                   highlevel_known_contracts |-> Exposed(all, kept),
                   libraries |-> link_output.libraries,
                   predeploy_libraries |-> link_output.libs_to_deploy]]

\* LinkedBuildData::new
LinkedBuildDataNew(link_output, bd) ==
    LET all == GetLinkedArtifacts(bd.contracts, link_output.libraries)
        kept == {id \in DOMAIN all :
                    /\ TryFromOk(all[id])
                    /\ IsNonEmptyBytecode(Unwrap(all[id].bytecode))}
    IN [ok |-> TRUE,
        value |-> [build_data |-> bd,
                   highlevel_known_contracts |-> Exposed(all, kept),
                   libraries |-> link_output.libraries,
                   predeploy_libraries |-> link_output.libs_to_deploy]]

\* Variant: sender and nonce not passed on to the Linker.
BuildDataLinkZeroSender(bd, known_libraries, sender, nonce) ==
    LinkedBuildDataNew(
        LinkWithNonceOrAddress(bd.contracts, known_libraries, AddressZero, 0,
                               bd.target), bd)

\* BuildData::link
BuildDataLink(bd, known_libraries, sender, nonce) ==
    LinkedBuildDataNew(
        LinkWithNonceOrAddress(bd.contracts, known_libraries, sender, nonce,
                               bd.target), bd)

\* Variant: libs_to_deploy is not checked.
BuildDataLinkWithLibrariesUnchecked(bd, libraries) ==
    LinkedBuildDataNew(
        LinkWithNonceOrAddress(bd.contracts, libraries, AddressZero, 0,
                               bd.target), bd)

\* BuildData::link_with_libraries
BuildDataLinkWithLibraries(bd, libraries) ==
    LET link_output == LinkWithNonceOrAddress(bd.contracts, libraries,
                                              AddressZero, 0, bd.target)
    IN IF link_output.libs_to_deploy # <<>>
       THEN Failed("IncompleteLibrarySet")
       ELSE LinkedBuildDataNew(link_output, bd)

\* LinkedBuildData::get_flattened_contracts
GetFlattenedContracts(l, deployed_code) ==
    LET code(c) == IF deployed_code THEN Bytes(Some(c.deployed_bytecode))
                                    ELSE Bytes(Some(c.bytecode))
        known == l.highlevel_known_contracts
        ids == {id \in DOMAIN known : IsSome(code(known[id]))}
    IN [id \in ids |-> [abi |-> known[id].abi, code |-> Unwrap(code(known[id]))]]

\* LinkedBuildData::get_target_contract
GetTargetContract(l) ==
    IF l.build_data.target \in DOMAIN l.highlevel_known_contracts
    THEN [ok |-> TRUE, value |-> l.highlevel_known_contracts[l.build_data.target]]
    ELSE Failed("TargetMissingAfterLink")


(***************************************************************************)
(* The pipeline                                                            *)
(***************************************************************************)
TargetContracts == {None, Some(NameA), Some(NameB)}

Init ==
    /\ pc = "preprocessed"
    /\ args \in [path : StringsUpTo(MaxStrLen), target_contract : TargetContracts]
    /\ target_name = None
    /\ target_path = None
    /\ output = None
    /\ build_data = None
    /\ linked = None
    /\ call = None
    /\ err = ""
    /\ stages = <<>>
    /\ compiled = None
    /\ attempts = 0

\* An error returned with `?` or bail!: the run ends, its values are dropped.
Fail(e) ==
    /\ pc' = "error"
    /\ err' = e
    /\ build_data' = None
    /\ linked' = None

\* Variant: a resolution error is swallowed and the run goes on by name.
ResolveRecovering ==
    /\ pc = "preprocessed"
    /\ stages' = Append(stages, "TargetResolver")
    /\ LET r == ResolveTarget(args)
       IN /\ pc' = "resolved"
          /\ target_name' = IF r.ok THEN r.target_name ELSE args.target_contract
          /\ target_path' = IF r.ok THEN r.target_path ELSE None
          /\ UNCHANGED <<err, build_data, linked>>
    /\ UNCHANGED <<args, output, call, compiled, attempts>>

\* compile(), lines 135-150
Resolve ==
    /\ pc = "preprocessed"
    /\ stages' = Append(stages, "TargetResolver")
    /\ LET r == ResolveTarget(args)
       IN IF r.ok
          THEN /\ pc' = "resolved"
               /\ target_name' = r.target_name
               /\ target_path' = r.target_path
               /\ UNCHANGED <<err, build_data, linked>>
          ELSE /\ Fail(r.error)
               /\ UNCHANGED <<target_name, target_path>>
    /\ UNCHANGED <<args, output, call, compiled, attempts>>

\* compile(), lines 152-166: the compiler returns an artifact set or fails.
Compile ==
    /\ pc = "resolved"
    /\ stages' = Append(stages, "CompilationDriver")
    /\ \/ \E out \in ArtifactSets, has_input_files \in BOOLEAN :
            IF IsSome(target_path) \/ has_input_files
            THEN /\ pc' = "compiled_output"
                 /\ output' = Some(out)
                 /\ UNCHANGED <<err, build_data, linked>>
            ELSE /\ Fail("NoInputFiles")
                 /\ UNCHANGED output
       \/ /\ Fail("CompileError")
          /\ UNCHANGED output
    /\ UNCHANGED <<args, target_name, target_path, call, compiled, attempts>>

\* compile(), lines 168-180
LocateTarget ==
    /\ pc = "compiled_output"
    /\ stages' = IF IsSome(target_path) THEN stages
                 ELSE Append(stages, "TargetResolver")
    /\ LET r == FindTargetPath(Unwrap(output), target_path, target_name)
       IN IF r.ok
          THEN /\ pc' = "located"
               /\ target_path' = Some(r.path)
               /\ UNCHANGED <<err, build_data, linked>>
          ELSE /\ Fail(r.error)
               /\ UNCHANGED target_path
    /\ UNCHANGED <<args, target_name, output, call, compiled, attempts>>

\* compile(), lines 182-225.  `output` keeps the artifact set the compiler
\* returned, for reference; the code moves it into the Linker.
Disambiguate ==
    /\ pc = "located"
    /\ stages' = Append(stages, "ArtifactDisambiguator")
    /\ LET out == Unwrap(output)
           r == FindTargetArtifact(out, Unwrap(target_path), target_name)
       IN IF r.ok
          THEN LET bd == [contracts |-> out, target |-> r.target,
                          sources |-> ContractSources(out)]
               IN /\ pc' = "compiled"
                  /\ build_data' = Some(bd)
                  /\ compiled' = Some(bd)
                  /\ UNCHANGED <<err, linked>>
          ELSE /\ Fail(r.error)
               /\ UNCHANGED compiled
    /\ UNCHANGED <<args, target_name, target_path, output, call, attempts>>

\* The outcome r of a link call made with the arguments c.
Linking(r, c) ==
    /\ call' = Some(c)
    /\ attempts' = attempts + 1
    /\ IF r.ok
       THEN /\ pc' = "linked"
            /\ linked' = Some(r.value)
            /\ build_data' = None
            /\ err' = err
       ELSE Fail(r.error)
    /\ UNCHANGED <<args, target_name, target_path, output, compiled>>

Predictive(known, nonce) ==
    [mode |-> "predictive", libraries |-> known, sender |-> Sender,
     nonce |-> nonce]

Exhaustive(libs) ==
    [mode |-> "exhaustive", libraries |-> libs, sender |-> AddressZero,
     nonce |-> 0]

\* CompiledState::link
Link ==
    /\ pc = "compiled"
    /\ stages' = Append(stages, "LinkerStage")
    /\ \E known \in LibrarySets, nonce \in 0..MaxNonce :
          Linking(BuildDataLink(Unwrap(build_data), known, Sender, nonce),
                  Predictive(known, nonce))

\* BuildData::link_with_libraries on the compiled build data
LinkWithLibraries ==
    /\ pc = "compiled"
    /\ stages' = Append(stages, "LinkerStage")
    /\ \E libs \in LibrarySets :
          Linking(BuildDataLinkWithLibraries(Unwrap(build_data), libs),
                  Exhaustive(libs))

\* BuildData::link on the build data a LinkedBuildData retains: a further
\* link attempt of the caller, after the run of the pipeline.
Relink ==
    /\ pc = "linked"
    /\ attempts < MaxLinks
    /\ UNCHANGED stages
    /\ \E known \in LibrarySets, nonce \in 0..MaxNonce :
          Linking(BuildDataLink(Unwrap(linked).build_data, known, Sender, nonce),
                  Predictive(known, nonce))

\* BuildData::link_with_libraries on the retained build data
RelinkWithLibraries ==
    /\ pc = "linked"
    /\ attempts < MaxLinks
    /\ UNCHANGED stages
    /\ \E libs \in LibrarySets :
          Linking(BuildDataLinkWithLibraries(Unwrap(linked).build_data, libs),
                  Exhaustive(libs))

Next ==
    \/ Resolve
    \/ Compile
    \/ LocateTarget
    \/ Disambiguate
    \/ Link
    \/ LinkWithLibraries
    \/ Relink
    \/ RelinkWithLibraries

Spec == Init /\ [][Next]_vars

(***************************************************************************)
(* Vocabulary of the properties                                            *)
(***************************************************************************)
Digits == {"0", "8", "19"}

\* A name without its trailing version suffix .<major>.<minor>.<patch>.
WithoutVersion(name) ==
    LET n == Len(name)
    IN IF /\ n > 6
          /\ name[n - 5] = "." /\ name[n - 3] = "." /\ name[n - 1] = "."
          /\ {name[n - 4], name[n - 2], name[n]} \subseteq Digits
       THEN SubSeq(name, 1, n - 6)
       ELSE name

HasAbi(c) == c.abi = "some"
\* Bytecode with unresolved library placeholders counts as non-empty.
HasCode(c) == IsSome(c.bytecode) /\ Unwrap(c.bytecode).code # <<>>

Disambiguated == \E i \in 1..Len(stages) : stages[i] = "ArtifactDisambiguator"
Artifacts == Unwrap(output)
ResolvedPath == Unwrap(target_path)
AtPath == {id \in DOMAIN Artifacts : id.source = ResolvedPath}
Deployable == {id \in AtPath : HasAbi(Artifacts[id]) /\ HasCode(Artifacts[id])}
SameContract(S) == \A x, y \in S : WithoutVersion(x.name) = WithoutVersion(y.name)
Selected == Unwrap(compiled).target

\* The artifacts the disambiguator's filter lets through.
Candidates ==
    IF IsSome(target_name)
    THEN {id \in AtPath : id.name = Unwrap(target_name)}
    ELSE Deployable

\* C1 as stated: whenever the artifacts at the target path with a non-empty
\* ABI and non-empty bytecode are one contract (up to version suffix),
\* disambiguation succeeds and selects one of them, whatever the target-name
\* constraint.
C1_AnyNameConstraint ==
    (Disambiguated /\ Deployable # {} /\ SameContract(Deployable))
        => (IsSome(compiled) /\ Selected \in Deployable)

\* C1 (amended): when the target-name constraint is absent, or is the exact
\* name of such an artifact, and the artifacts at the target path with a
\* non-empty ABI and non-empty bytecode are one contract up to version
\* suffix, disambiguation succeeds and selects one of them; it ends neither
\* in AmbiguousTarget nor in TargetNotFound.
C1_UniqueDeployableSelected ==
    (/\ Disambiguated
     /\ Deployable # {} /\ SameContract(Deployable)
     /\ \/ target_name = None
        \/ \E d \in Deployable : target_name = Some(d.name))
        => (/\ IsSome(compiled) /\ Selected \in Deployable
            /\ err \notin {"AmbiguousTarget", "TargetNotFound"})

C1_Witness ==
    /\ pc = "compiled"
    /\ target_name = None
    /\ Cardinality(Deployable) = 2
    /\ Cardinality(AtPath) = 3
    /\ Selected \in Deployable

\* C2 as stated: two artifacts at the target path with different
\* version-stripped names always give AmbiguousTarget; artifacts that differ
\* only by version suffix always give a selected target.
C2_AnyTwoArtifacts ==
    Disambiguated =>
        /\ ~SameContract(AtPath) => err = "AmbiguousTarget"
        /\ (AtPath # {} /\ SameContract(AtPath))
               => (IsSome(compiled) /\ Selected \in AtPath)

\* C2 (amended): two artifacts that pass the disambiguator's filter (the
\* name constraint if there is one, else a non-empty ABI and non-empty
\* bytecode) and whose version-stripped names differ give AmbiguousTarget;
\* if at least one artifact passes the filter and those that pass differ
\* only by version suffix, disambiguation succeeds and selects one of them.
C2_CandidatesDecide ==
    Disambiguated =>
        /\ ~SameContract(Candidates)
               => (err = "AmbiguousTarget" /\ compiled = None)
        /\ (Candidates # {} /\ SameContract(Candidates))
               => (/\ IsSome(compiled) /\ Selected \in Candidates
                   /\ err \notin {"AmbiguousTarget", "TargetNotFound"})

C2_Witness ==
    /\ pc = "compiled"
    /\ IdA \in Candidates /\ IdAv \in Candidates
    /\ IdB \in AtPath
    /\ Selected \in {IdA, IdAv}

(***************************************************************************)
(* Linking                                                                 *)
(***************************************************************************)
Built == Unwrap(compiled)
LastCall == Unwrap(call)
Result == Unwrap(linked)
Required == NeededLibraries(Built.contracts, Built.target)
Supplied == DOMAIN LastCall.libraries

\* C3: in exhaustive mode, a supplied set that is a strict superset of the
\* libraries the target transitively requires links successfully, a strict
\* subset fails with IncompleteLibrarySet, and a successful result holds
\* exactly the supplied addresses and an empty predeploy list.
C3_ExhaustiveMode ==
    (IsSome(call) /\ LastCall.mode = "exhaustive") =>
        /\ (Required \subseteq Supplied /\ Required # Supplied)
               => (pc = "linked" /\ err = "")
        /\ (Supplied \subseteq Required /\ Required # Supplied)
               => (pc = "error" /\ err = "IncompleteLibrarySet" /\ linked = None)
        /\ pc = "linked"
               => /\ Result.libraries = LastCall.libraries
                  /\ Result.predeploy_libraries = <<>>

C3_Witness ==
    /\ pc = "linked"
    /\ LastCall.mode = "exhaustive"
    /\ Required = {IdM}
    /\ Supplied = {IdL, IdM}
    /\ Result.libraries[IdM] = GivenAddress(IdM)

\* The required libraries the caller did not supply, dependencies first.
Missing ==
    SelectSeq(DependencyOrder(Built.contracts, Required, <<>>),
              LAMBDA l : l \notin Supplied)

\* C4: in predictive mode the call succeeds whatever the known set; the
\* i-th required library missing from the known set (i = 0..k-1, a library
\* after the libraries it uses) gets the address of (sender, n + i), known
\* libraries keep their addresses, the predeploy list is the linked bytecode
\* of those k libraries in that order, and the nonces n .. n+k-1 are used.
C4_PredictiveMode ==
    (IsSome(call) /\ LastCall.mode = "predictive") =>
        /\ pc = "linked" /\ err = ""
        /\ DOMAIN Result.libraries = Supplied \cup Required
        /\ \A l \in Supplied : Result.libraries[l] = LastCall.libraries[l]
        /\ \A i \in 1..Len(Missing) :
              /\ Result.libraries[Missing[i]]
                     = Create(LastCall.sender, LastCall.nonce + i - 1)
              /\ \A j \in 1..(i - 1) :
                     Missing[i] \notin NeededLibraries(Built.contracts, Missing[j])
        /\ Len(Result.predeploy_libraries) = Len(Missing)
        /\ \A i \in 1..Len(Missing) :
              LET blob == Result.predeploy_libraries[i]
                  lib == Unwrap(Built.contracts[Missing[i]].bytecode)
              IN /\ blob.code = lib.code
                 /\ blob.refs = {}
                 /\ \A r \in lib.refs : blob.links[r] = Result.libraries[r]
        /\ {a[3] : a \in {Result.libraries[l] : l \in Range(Missing)}}
               = {LastCall.nonce + i - 1 : i \in 1..Len(Missing)}

C4_Witness ==
    /\ pc = "linked"
    /\ LastCall.mode = "predictive"
    /\ LastCall.nonce = 1
    /\ Supplied = {}
    /\ Missing = <<IdM, IdL>>
    /\ Result.libraries[IdL] = Create(Sender, 2)
    /\ Len(Result.predeploy_libraries) = 2

TargetArtifact == Built.contracts[Built.target]

Flattened(deployed_code) == GetFlattenedContracts(Result, deployed_code)

\* C6 as stated: the deployed-code view never holds an artifact whose
\* deployed bytecode is empty.
C6_NoEmptyDeployedCode ==
    pc = "linked" =>
        \A id \in DOMAIN Flattened(TRUE) : Flattened(TRUE)[id].code.code # <<>>

\* C6 (amended): every artifact whose resolved creation bytecode is empty is
\* dropped from the exposed mapping, so neither view of
\* get_flattened_contracts includes an artifact whose creation bytecode is
\* empty, and the creation-code view holds no empty code.
C6_NoEmptyCreationCode ==
    pc = "linked" =>
        /\ \A id \in DOMAIN Result.highlevel_known_contracts :
               HasCode(Built.contracts[id])
        /\ \A id \in DOMAIN Flattened(TRUE) : HasCode(Built.contracts[id])
        /\ \A id \in DOMAIN Flattened(FALSE) :
               Flattened(FALSE)[id].code.code # <<>>

C6_Witness ==
    /\ pc = "linked"
    /\ \E id \in DOMAIN Built.contracts :
          /\ IsSome(Built.contracts[id].bytecode)
          /\ ~HasCode(Built.contracts[id])
          /\ id \notin DOMAIN Flattened(TRUE)
    /\ \E id \in DOMAIN Flattened(TRUE) :
          Flattened(TRUE)[id].code.code = <<>>

C8_CanonicalPathWins ==
    (pc # "preprocessed" /\ Canonicalize(args.path).ok) =>
        /\ target_path = Some(Canonicalize(args.path).path)
        /\ target_name = args.target_contract
        /\ err # "ResolutionError"

C8_Witness ==
    /\ pc = "located"
    /\ Canonicalize(args.path).ok
    /\ args.target_contract = Some(NameB)
    /\ target_path = Some(TargetSource)

\* C9: a successful link leaves the BuildData as compile returned it inside
\* the LinkedBuildData, and a link of that retained build data gives what
\* the same call on the original BuildData gives.
C9_RelinkFromOriginal ==
    pc = "linked" =>
        /\ Result.build_data = Built
        /\ Result.build_data.sources = ContractSources(Artifacts)
        /\ Result.build_data.contracts = Artifacts
        /\ LastCall.mode = "predictive"
               => linked = Some(BuildDataLink(Built, LastCall.libraries,
                                              LastCall.sender,
                                              LastCall.nonce).value)
        /\ LastCall.mode = "exhaustive"
               => linked = Some(BuildDataLinkWithLibraries(
                                    Built, LastCall.libraries).value)

C9_Witness ==
    /\ pc = "linked"
    /\ attempts = 2
    /\ Supplied = {IdM}
    /\ Result.libraries[IdM] = GivenAddress(IdM)
    /\ DOMAIN Result.highlevel_known_contracts # DOMAIN Built.contracts
    /\ Result.build_data = Built

IsPrefix(s, t) == Len(s) <= Len(t) /\ s = SubSeq(t, 1, Len(s))

Pipeline ==
    <<"TargetResolver", "CompilationDriver", "ArtifactDisambiguator",
      "LinkerStage">>

\* The order when the user string is a bare contract name: the resolver
\* looks the path up in the compilation cache after the compiler has run.
PipelineByName ==
    <<"TargetResolver", "CompilationDriver", "TargetResolver",
      "ArtifactDisambiguator", "LinkerStage">>

StageOf(e) ==
    CASE e = "ResolutionError" -> "TargetResolver"
      [] e \in {"NoInputFiles", "CompileError"} -> "CompilationDriver"
      [] e \in {"AmbiguousTarget", "TargetNotFound"} -> "ArtifactDisambiguator"
      [] e = "IncompleteLibrarySet" -> "LinkerStage"

\* What an error leaves behind: the run has ended in the stage that reports
\* the error, nothing more can run, and no BuildData or LinkedBuildData
\* is left.
EndsTheRun ==
    /\ (pc = "error") <=> (err # "")
    /\ pc = "error" =>
          /\ stages[Len(stages)] = StageOf(err)
          /\ build_data = None /\ linked = None
          /\ ~ENABLED Next
    /\ (pc # "preprocessed" /\ ~ResolveTarget(args).ok)
          => (pc = "error" /\ stages = <<"TargetResolver">>)
    /\ (IsSome(output) /\ pc \notin {"compiled_output"}
            /\ ~FindTargetPath(Artifacts, ResolveTarget(args).target_path,
                               target_name).ok)
          => (pc = "error" /\ err = "ResolutionError" /\ compiled = None)
    /\ (Disambiguated
            /\ ~FindTargetArtifact(Artifacts, ResolvedPath, target_name).ok)
          => (pc = "error" /\ compiled = None
              /\ stages[Len(stages)] = "ArtifactDisambiguator")
    /\ IsSome(build_data) => pc = "compiled"
    /\ IsSome(linked) => pc = "linked"

\* C10 as stated: the stages run in the order Target Resolver, Compilation
\* Driver Adapter, Artifact Disambiguator, Linker Stage, each at most once
\* and each completed before the next begins, and an error ends the run.
C10_StrictStageOrder ==
    /\ IsPrefix(stages, Pipeline)
    /\ EndsTheRun

\* C10 (amended): the stages run in the order Target Resolver, Compilation
\* Driver Adapter, Artifact Disambiguator, Linker Stage, each at most once,
\* except that for a user string without a path (a bare contract name) the
\* Target Resolver finishes after the Compilation Driver Adapter, by a
\* lookup in the compilation cache that can itself fail with
\* ResolutionError; an error of any stage ends the run with that error, no
\* later stage runs, none is retried, and no BuildData or LinkedBuildData
\* is left.
C10_StageOrder ==
    /\ IF pc # "preprocessed" /\ ResolveTarget(args).ok
          /\ ResolveTarget(args).target_path = None
       THEN IsPrefix(stages, PipelineByName)
       ELSE IsPrefix(stages, Pipeline)
    /\ EndsTheRun

C10_Witness ==
    /\ pc = "error"
    /\ err = "IncompleteLibrarySet"
    /\ stages = PipelineByName
    /\ attempts = 1
    /\ IsSome(compiled)

====
